---- MODULE Spec2Model ----
(***************************************************************************)
(* The CameraApp capture workflow of src/src/app/layout.tsx, in its two    *)
(* variants: variant "A" (lines 26-275, contour counting, objectCount) and *)
(* variant "B" (lines 276-498, non-zero pixel counting, processedResult).  *)
(* One instance of the component is modelled from mount to unmount, with   *)
(* the asynchronous completions of getUserMedia, of the video element's    *)
(* loadedmetadata event and of the image decode that processImage awaits.  *)
(***************************************************************************)
EXTENDS Integers, Sequences, FiniteSets, TLC

(* ------------------------------ bounds -------------------------------- *)

\* getUserMedia calls issued over one run of the component
MaxRequests == 3
\* contours the vision library reports for one frame (variant A)
MaxContours == 1
\* largest value countNonZero reports for one frame (variant B)
MaxNonZero == 1
\* processImage invocations that may be pending at once before the model stops
\* adding more (the code itself has no such limit)
MaxInFlight == 2
\* vision-library structures that may stay allocated before the model stops
\* taking paths that leave more of them behind
MaxLive == 3

(* ------------------------- values of the state ------------------------ *)

Variants == {"A", "B"}

\* useState<string | null>(null): no captured image
NoImage == -1
\* canvas.toDataURL of a 0 x 0 canvas: the string "data:,"
EmptyDataUrl == 0
\* videoRef.current.srcObject = null
NoStream == 0
\* useState<number | null>(null): no processed result (variant B)
NoResult == -1
\* useState<string | null>(null): no error
NoError == "null"
CameraErrorMsg == "Camera access failed. Please check your camera permissions"
GuardErrorMsg == "OpenCV.js not loaded or no image captured"
ProcessErrorMsg == "Error processing image: "
\* if (area > 100) count++
AreaThreshold == 100
\* the areas the vision library may report for a contour, around the threshold
Areas == {AreaThreshold, AreaThreshold + 1}

VARIABLES
  variant,         \* which of the two components is mounted
  mounted,         \* the component is mounted
  cvLoaded,        \* window.cv is defined (the async script has run)
  isStreaming,     \* useState isStreaming
  capturedImage,   \* useState capturedImage: NoImage, EmptyDataUrl, or n > 0 for
                   \* the JPEG of a frame of stream n
  objectCount,     \* useState objectCount (variant A)
  processedResult, \* useState processedResult (variant B)
  error,           \* useState error
  isProcessing,    \* useState isProcessing
  srcObject,       \* the stream bound to the video element, or NoStream
  metadataLoaded,  \* the bound stream's metadata has loaded (videoWidth > 0)
  pendingRequests, \* getUserMedia promises not yet settled
  requestsIssued,  \* getUserMedia calls so far
  pendingRetakes,  \* history: the pending requests that a Retake pressed in
                   \* Captured with a result shown has issued
  streams,         \* streams acquired so far, numbered 1..streams
  liveTracks,      \* the acquired streams whose video track is still running
  procs,           \* pending processImage invocations: the data URL each closed over
  liveMats,        \* vision-library structures allocated and not deleted
  lastOp,          \* history: the handler or completion that ran last
  lastVal,         \* history: the count the last successful processing computed
  resultFrame,     \* history: the data URL the result now held was computed
                   \* from, NoImage when Retake has cleared it
  capturedSinceStart, \* history: captureImage ran while streaming and startCamera
                      \* has not been called since
  pair             \* the two variants mounted side by side and driven by the same
                   \* events (SpecPair); left alone by the single component

single == <<variant, mounted, cvLoaded, isStreaming, capturedImage, objectCount,
            processedResult, error, isProcessing, srcObject, metadataLoaded,
            pendingRequests, requestsIssued, pendingRetakes, streams, liveTracks,
            procs, liveMats, lastOp, lastVal, resultFrame, capturedSinceStart>>

vars == <<single, pair>>

reactState == <<isStreaming, capturedImage, objectCount, processedResult, error,
                isProcessing>>
cameraState == <<srcObject, metadataLoaded, pendingRequests, requestsIssued,
                 pendingRetakes, streams, liveTracks>>

(* ------------------------------ rendering ----------------------------- *)

\* videoRef.current is non-null: variant A always renders the <video>, variant B
\* renders it only while there is no captured image; React clears the ref of an
\* element that is not rendered.
VideoRefCurrent ==
  mounted /\ (variant = "A" \/ capturedImage = NoImage)

\* canvasRef.current is non-null: the hidden canvas is always rendered.
CanvasRefCurrent == mounted

\* {!isStreaming && !capturedImage && <Button onClick={startCamera}>}
StartCameraButton == mounted /\ ~isStreaming /\ capturedImage = NoImage

\* {isStreaming && <Button onClick={captureImage}>}
CaptureButton == mounted /\ isStreaming

\* {capturedImage && <Button onClick={processImage} disabled={isProcessing}>}
ProcessButtonNeverDisabled == mounted /\ capturedImage # NoImage
ProcessButton == mounted /\ capturedImage # NoImage /\ ~isProcessing

\* {capturedImage && <Button onClick={resetCapture | retakeImage}>}
RetakeButton == mounted /\ capturedImage # NoImage

\* the result panel: {objectCount > 0 && ...} in A, {processedResult !== null && ...} in B
ResultPresent ==
  IF variant = "A" THEN objectCount > 0 ELSE processedResult # NoResult

\* the value the result state holds
ResultValue == IF variant = "A" THEN objectCount ELSE processedResult

\* the workflow state Captured: a frame is shown, the camera is off and no
\* processing is running
Captured == capturedImage # NoImage /\ ~isStreaming /\ ~isProcessing

\* the camera-lifecycle state of one variant's component after construction
\* (the useState initial values and the unbound video element)
ComponentInit ==
  [isStreaming |-> FALSE, capturedImage |-> NoImage, isProcessing |-> FALSE,
   srcObject |-> NoStream, metadataLoaded |-> FALSE, procs |-> <<>>]

\* both variants just mounted, with the platform state they share
PairInit ==
  [mounted |-> TRUE, cvLoaded |-> FALSE, pendingRequests |-> 0,
   requestsIssued |-> 0, streams |-> 0,
   comp |-> [v \in Variants |-> ComponentInit]]

(* ------------------------------- Init --------------------------------- *)

Init ==
  /\ variant \in Variants
  /\ mounted = TRUE
  /\ cvLoaded = FALSE
  /\ isStreaming = FALSE
  /\ capturedImage = NoImage
  /\ objectCount = 0
  /\ processedResult = NoResult
  /\ error = NoError
  /\ isProcessing = FALSE
  /\ srcObject = NoStream
  /\ metadataLoaded = FALSE
  /\ pendingRequests = 0
  /\ requestsIssued = 0
  /\ pendingRetakes = 0
  /\ streams = 0
  /\ liveTracks = {}
  /\ procs = <<>>
  /\ liveMats = 0
  /\ lastOp = "mount"
  /\ lastVal = 0
  /\ resultFrame = NoImage
  /\ capturedSinceStart = FALSE
  /\ pair = PairInit

(* ------------------------------- camera ------------------------------- *)

\* the <script async src=".../opencv.min.js"> of the layout finishes loading
CvLoaded ==
  /\ ~cvLoaded
  /\ cvLoaded' = TRUE
  /\ lastOp' = "cvLoaded"
  /\ UNCHANGED <<pair, variant, mounted, reactState, cameraState, procs, liveMats,
                 lastVal, resultFrame, capturedSinceStart>>

\* startCamera up to its await: one more getUserMedia request is pending
startCamera ==
  /\ requestsIssued < MaxRequests
  /\ pendingRequests' = pendingRequests + 1
  /\ requestsIssued' = requestsIssued + 1
  /\ capturedSinceStart' = FALSE

\* the Start Camera button
ClickStartCamera ==
  /\ StartCameraButton
  /\ startCamera
  /\ lastOp' = "startCamera"
  /\ UNCHANGED <<pair, variant, mounted, cvLoaded, reactState, srcObject,
                 metadataLoaded, pendingRetakes, streams, liveTracks, procs,
                 liveMats, lastVal, resultFrame>>

\* one pending getUserMedia promise settles: one that a Retake pressed with a
\* result shown has issued, or another one
requestSettles ==
  /\ pendingRequests > 0
  /\ pendingRequests' = pendingRequests - 1
  /\ \E fromRetake \in BOOLEAN :
       /\ IF fromRetake THEN pendingRetakes > 0
                        ELSE pendingRequests > pendingRetakes
       /\ pendingRetakes' = IF fromRetake THEN pendingRetakes - 1
                                          ELSE pendingRetakes

\* getUserMedia resolves: startCamera continues after its await with a new stream
CameraGranted ==
  /\ requestSettles
  /\ streams' = streams + 1
  /\ liveTracks' = liveTracks \cup {streams + 1}
  /\ IF VideoRefCurrent
       THEN /\ srcObject' = streams + 1
            /\ metadataLoaded' = FALSE
            /\ isStreaming' = TRUE
            /\ error' = NoError
       ELSE UNCHANGED <<srcObject, metadataLoaded, isStreaming, error>>
  /\ lastOp' = "startCamera.granted"
  /\ UNCHANGED <<pair, variant, mounted, cvLoaded, capturedImage, objectCount,
                 processedResult, isProcessing, requestsIssued, procs, liveMats,
                 lastVal, resultFrame, capturedSinceStart>>

\* getUserMedia rejects: the catch block of startCamera (a state update of an
\* unmounted component is dropped)
CameraFailed ==
  /\ requestSettles
  /\ error' = IF mounted THEN CameraErrorMsg ELSE error
  /\ lastOp' = "startCamera.failed"
  /\ UNCHANGED <<pair, variant, mounted, cvLoaded, isStreaming, capturedImage,
                 objectCount, processedResult, isProcessing, srcObject,
                 metadataLoaded, requestsIssued, streams, liveTracks, procs,
                 liveMats, lastVal, resultFrame, capturedSinceStart>>

\* the video element's onloadedmetadata: play(); videoWidth and videoHeight are
\* those of the stream from here on
LoadedMetadata ==
  /\ srcObject # NoStream
  /\ srcObject \in liveTracks
  /\ ~metadataLoaded
  /\ metadataLoaded' = TRUE
  /\ lastOp' = "loadedmetadata"
  /\ UNCHANGED <<pair, variant, mounted, cvLoaded, reactState, srcObject,
                 pendingRequests, requestsIssued, pendingRetakes, streams,
                 liveTracks, procs, liveMats, lastVal, resultFrame, capturedSinceStart>>

\* track.stop() on the tracks of the bound stream: the streams still running
StopTracks(live, bound) == live \ {bound}

\* stopCamera, with videoRef.current non-null or not
stopCameraKeepsFlag(ref) ==
  IF ref /\ srcObject # NoStream
    THEN /\ liveTracks' = StopTracks(liveTracks, srcObject)
         /\ srcObject' = NoStream
         /\ metadataLoaded' = FALSE
         /\ UNCHANGED isStreaming
    ELSE UNCHANGED <<liveTracks, srcObject, metadataLoaded, isStreaming>>
stopCamera(ref) ==
  IF ref /\ srcObject # NoStream
    THEN /\ liveTracks' = StopTracks(liveTracks, srcObject)
         /\ srcObject' = NoStream
         /\ metadataLoaded' = FALSE
         /\ isStreaming' = FALSE
    ELSE UNCHANGED <<liveTracks, srcObject, metadataLoaded, isStreaming>>

\* canvas.toDataURL('image/jpeg') after drawing the video: the canvas takes the
\* video's videoWidth x videoHeight, which is 0 x 0 until a bound stream's
\* metadata has loaded
toDataURL ==
  IF srcObject # NoStream /\ metadataLoaded THEN srcObject ELSE EmptyDataUrl

\* captureImage
captureImage ==
  /\ IF VideoRefCurrent /\ CanvasRefCurrent
       THEN /\ capturedImage' = toDataURL
            /\ stopCamera(VideoRefCurrent)
       ELSE UNCHANGED <<capturedImage, liveTracks, srcObject, metadataLoaded,
                        isStreaming>>
  /\ capturedSinceStart' = (isStreaming \/ capturedSinceStart)
  /\ lastOp' = "captureImage"
  /\ UNCHANGED <<pair, variant, mounted, cvLoaded, objectCount, processedResult, error,
                 isProcessing, pendingRequests, requestsIssued, pendingRetakes,
                 streams, procs, liveMats, lastVal, resultFrame>>

\* the Capture Image button
ClickCapture ==
  /\ CaptureButton
  /\ captureImage

\* resetCapture (variant A) / retakeImage (variant B), behind the New Capture /
\* Retake button
ClickRetake ==
  /\ RetakeButton
  /\ capturedImage' = NoImage
  /\ IF variant = "A"
       THEN objectCount' = 0 /\ UNCHANGED processedResult
       ELSE processedResult' = NoResult /\ UNCHANGED objectCount
  /\ startCamera
  /\ pendingRetakes' = IF Captured /\ ResultPresent
                         THEN pendingRetakes + 1 ELSE pendingRetakes
  /\ resultFrame' = NoImage
  /\ lastOp' = "retake"
  /\ UNCHANGED <<pair, variant, mounted, cvLoaded, isStreaming, error, isProcessing,
                 srcObject, metadataLoaded, streams, liveTracks, procs, liveMats,
                 lastVal>>

\* the component unmounts: the effect's cleanup calls stopCamera. React 17 and
\* later detach the ref of the <video> before the cleanup of useEffect runs,
\* earlier versions after it; the repository pins no version, so both orders
\* can happen.
Unmount ==
  /\ mounted
  /\ mounted' = FALSE
  /\ \E refAttached \in BOOLEAN : stopCamera(VideoRefCurrent /\ refAttached)
  /\ lastOp' = "unmount"
  /\ UNCHANGED <<pair, variant, cvLoaded, capturedImage, objectCount, processedResult,
                 error, isProcessing, pendingRequests, requestsIssued,
                 pendingRetakes, streams, procs, liveMats, lastVal, resultFrame,
                 capturedSinceStart>>

(* ----------------------------- processing ---------------------------- *)

\* if (!window.cv || !capturedImage) of processImage, on the data URL its
\* closure holds: TRUE when the guard lets the call through
GuardPassesWithoutCv(dataUrl) == dataUrl # NoImage
GuardPasses(dataUrl) == cvLoaded /\ dataUrl # NoImage

\* processImage up to its await: the fail-fast guard, then setIsProcessing(true)
\* (and setError(null) in variant B) and the image decode is pending
processImage ==
  /\ IF ~GuardPasses(capturedImage)
       THEN /\ error' = GuardErrorMsg
            /\ lastOp' = "processImage.rejected"
            /\ UNCHANGED <<isProcessing, procs>>
       ELSE /\ Len(procs) < MaxInFlight
            /\ isProcessing' = TRUE
            /\ error' = IF variant = "B" THEN NoError ELSE error
            /\ procs' = Append(procs, capturedImage)
            /\ lastOp' = "processImage.started"
  /\ UNCHANGED <<pair, variant, mounted, cvLoaded, isStreaming, capturedImage,
                 objectCount, processedResult, cameraState, liveMats, lastVal, resultFrame,
                 capturedSinceStart>>

\* the Process Image button
ClickProcess ==
  /\ ProcessButton
  /\ processImage

\* createImageFromDataUrl resolves only from img.onload: "data:," holds no image,
\* its load fails, and with no onerror handler the promise never settles
Decodes(dataUrl) == dataUrl # EmptyDataUrl

\* The calls processImage makes once the image has decoded, in program order.
\* "alloc": a call returning a structure that needs delete() (imread, new Mat,
\* new MatVector, contours.get(i)); "op": a computation; "set": the state update
\* with the result; "delete": one x.delete().
LoopCalls(n) == [j \in 1..(2 * n) |-> IF j % 2 = 1 THEN "alloc" ELSE "op"]

CallsA(n) ==
  <<"alloc", "alloc", "op", "alloc", "op", "alloc", "op", "alloc", "alloc", "op">>
    \o LoopCalls(n)
    \o <<"set", "delete", "delete", "delete", "delete", "delete", "delete">>

CallsB == <<"alloc", "alloc", "op", "op", "set", "delete", "delete">>

\* the counting loop of variant A over the areas contourArea reports
CountObjects(areas) ==
  Cardinality({j \in 1..Len(areas) : areas[j] > AreaThreshold})

AreaSeqs == UNION {[1..n -> Areas] : n \in 0..MaxContours}

\* the calls that complete when call number k throws (k = 0: none throws)
Executed(calls, k) == 1..(IF k = 0 THEN Len(calls) ELSE k - 1)

\* structures allocated and not deleted by the calls that completed
Leaked(calls, k) ==
  Cardinality({j \in Executed(calls, k) : calls[j] = "alloc"})
    - Cardinality({j \in Executed(calls, k) : calls[j] = "delete"})

\* the state update with the result was reached
ResultSet(calls, k) == \E j \in Executed(calls, k) : calls[j] = "set"

RemoveAt(s, i) == [j \in 1..(Len(s) - 1) |-> IF j < i THEN s[j] ELSE s[j + 1]]

\* processImage from the resolution of its await to its end, for pending
\* invocation i: the calls run in order with count c as the result; call k
\* throws (k = 0: none), the catch block sets the error, finally clears
\* isProcessing. State updates of an unmounted component are dropped.
settle(i, calls, c, k) ==
  /\ liveMats + Leaked(calls, k) <= MaxLive
  /\ liveMats' = liveMats + Leaked(calls, k)
  /\ procs' = RemoveAt(procs, i)
  /\ IF mounted /\ ResultSet(calls, k)
       THEN IF variant = "A"
              THEN objectCount' = c /\ UNCHANGED processedResult
              ELSE processedResult' = c /\ UNCHANGED objectCount
       ELSE UNCHANGED <<objectCount, processedResult>>
  /\ error' = IF mounted /\ k # 0 THEN ProcessErrorMsg ELSE error
  /\ isProcessing' = IF mounted THEN FALSE ELSE isProcessing
  /\ lastOp' = IF k = 0 THEN "processImage.succeeded" ELSE "processImage.failed"
  /\ lastVal' = IF k = 0 THEN c ELSE lastVal
  /\ resultFrame' = IF mounted /\ ResultSet(calls, k) THEN procs[i]
                                                     ELSE resultFrame
  /\ UNCHANGED <<pair, variant, mounted, cvLoaded, isStreaming, capturedImage,
                 cameraState, capturedSinceStart>>

\* img.onload of a pending invocation fires and the rest of processImage runs
ProcessSettle ==
  \E i \in 1..Len(procs) :
    /\ Decodes(procs[i])
    /\ IF variant = "A"
         THEN \E areas \in AreaSeqs :
                \E k \in 0..Len(CallsA(Len(areas))) :
                  settle(i, CallsA(Len(areas)), CountObjects(areas), k)
         ELSE \E r \in 0..MaxNonZero :
                \E k \in 0..Len(CallsB) : settle(i, CallsB, r, k)

(* --------------------------- specifications --------------------------- *)

\* the component driven through its rendered buttons and the platform's
\* asynchronous completions
Next ==
  \/ CvLoaded
  \/ ClickStartCamera
  \/ CameraGranted
  \/ CameraFailed
  \/ LoadedMetadata
  \/ ClickCapture
  \/ ClickProcess
  \/ ProcessSettle
  \/ ClickRetake
  \/ Unmount

Spec == Init /\ [][Next]_vars

\* the browser delivers img.onload of an image that decodes, and the rest of
\* processImage then runs: a pending invocation that can settle does settle
FairSpec == Spec /\ WF_vars(ProcessSettle)

\* a handler invoked while its button is not rendered, as a caller holding the
\* handler (a test, a script) can
DirectCaptureImage ==
  /\ mounted
  /\ ~CaptureButton
  /\ captureImage

DirectProcessImage ==
  /\ mounted
  /\ capturedImage = NoImage
  /\ processImage

NextDirect ==
  \/ Next
  \/ DirectCaptureImage
  \/ DirectProcessImage

SpecDirect == Init /\ [][NextDirect]_vars

(* ----------------------- the two variants side by side --------------- *)

\* The camera lifecycle of both variants as functions of one component's
\* state c, so that the two can be driven by the same user actions and the same
\* completions. v is the variant, m whether the components are mounted.

\* videoRef.current of variant v
VideoRefOf(v, m, c) == m /\ (v = "A" \/ c.capturedImage = NoImage)

\* the buttons rendered for state c
StartCameraButtonOf(m, c) == m /\ ~c.isStreaming /\ c.capturedImage = NoImage
CaptureButtonOf(m, c) == m /\ c.isStreaming
ProcessButtonOf(m, c) == m /\ c.capturedImage # NoImage /\ ~c.isProcessing
RetakeButtonOf(m, c) == m /\ c.capturedImage # NoImage

\* startCamera after its await, with the new stream s
startCameraGrantedOf(v, m, c, s) ==
  IF VideoRefOf(v, m, c)
    THEN [c EXCEPT !.srcObject = s, !.metadataLoaded = FALSE,
                   !.isStreaming = TRUE]
    ELSE c

\* onloadedmetadata of the component's video element
loadedMetadataOf(c) ==
  IF c.srcObject # NoStream THEN [c EXCEPT !.metadataLoaded = TRUE] ELSE c

\* stopCamera
stopCameraOf(ref, c) ==
  IF ref /\ c.srcObject # NoStream
    THEN [c EXCEPT !.srcObject = NoStream, !.metadataLoaded = FALSE,
                   !.isStreaming = FALSE]
    ELSE c

\* canvas.toDataURL after drawing the component's video
toDataURLOf(c) ==
  IF c.srcObject # NoStream /\ c.metadataLoaded THEN c.srcObject
                                                 ELSE EmptyDataUrl

\* captureImage
captureImageOf(v, m, c) ==
  IF VideoRefOf(v, m, c) /\ m
    THEN stopCameraOf(VideoRefOf(v, m, c),
                      [c EXCEPT !.capturedImage = toDataURLOf(c)])
    ELSE c

\* resetCapture / retakeImage, up to the await of startCamera
retakeImageOf(c) == [c EXCEPT !.capturedImage = NoImage]

\* processImage up to its await
processImageOf(cv, c) ==
  IF cv /\ c.capturedImage # NoImage
    THEN [c EXCEPT !.isProcessing = TRUE,
                   !.procs = Append(c.procs, c.capturedImage)]
    ELSE c

\* processImage from the resolution of its await to its finally block, for
\* pending invocation i
processSettledOf(m, c, i) ==
  [c EXCEPT !.procs = RemoveAt(c.procs, i),
            !.isProcessing = IF m THEN FALSE ELSE c.isProcessing]

PairCvLoaded ==
  /\ ~pair.cvLoaded
  /\ pair' = [pair EXCEPT !.cvLoaded = TRUE]
  /\ UNCHANGED single

\* Start Camera pressed in both variants
PairClickStartCamera ==
  /\ \A v \in Variants : StartCameraButtonOf(pair.mounted, pair.comp[v])
  /\ pair.requestsIssued < MaxRequests
  /\ pair' = [pair EXCEPT !.pendingRequests = pair.pendingRequests + 1,
                          !.requestsIssued = pair.requestsIssued + 1]
  /\ UNCHANGED single

\* the oldest pending getUserMedia request of each variant is granted
PairCameraGranted ==
  /\ pair.pendingRequests > 0
  /\ pair' = [pair EXCEPT
                !.pendingRequests = pair.pendingRequests - 1,
                !.streams = pair.streams + 1,
                !.comp = [v \in Variants |->
                            startCameraGrantedOf(v, pair.mounted, pair.comp[v],
                                                 pair.streams + 1)]]
  /\ UNCHANGED single

\* the oldest pending getUserMedia request of each variant is rejected: the
\* catch block sets the error only
PairCameraFailed ==
  /\ pair.pendingRequests > 0
  /\ pair' = [pair EXCEPT !.pendingRequests = pair.pendingRequests - 1]
  /\ UNCHANGED single

\* the stream bound in each variant delivers its metadata
PairLoadedMetadata ==
  /\ \A v \in Variants :
       pair.comp[v].srcObject # NoStream /\ ~pair.comp[v].metadataLoaded
  /\ pair' = [pair EXCEPT
                !.comp = [v \in Variants |-> loadedMetadataOf(pair.comp[v])]]
  /\ UNCHANGED single

\* Capture Image pressed in both variants
PairClickCapture ==
  /\ \A v \in Variants : CaptureButtonOf(pair.mounted, pair.comp[v])
  /\ pair' = [pair EXCEPT
                !.comp = [v \in Variants |->
                            captureImageOf(v, pair.mounted, pair.comp[v])]]
  /\ UNCHANGED single

\* Process Image pressed in both variants
PairClickProcess ==
  /\ \A v \in Variants :
       /\ ProcessButtonOf(pair.mounted, pair.comp[v])
       /\ Len(pair.comp[v].procs) < MaxInFlight
  /\ pair' = [pair EXCEPT
                !.comp = [v \in Variants |->
                            processImageOf(pair.cvLoaded, pair.comp[v])]]
  /\ UNCHANGED single

\* the same pending invocation settles in both variants
PairProcessSettle ==
  /\ \E i \in 1..MaxInFlight :
       /\ \A v \in Variants :
            /\ i <= Len(pair.comp[v].procs)
            /\ Decodes(pair.comp[v].procs[i])
       /\ pair' = [pair EXCEPT
                     !.comp = [v \in Variants |->
                                 processSettledOf(pair.mounted, pair.comp[v], i)]]
  /\ UNCHANGED single

\* New Capture / Retake pressed in both variants
PairClickRetake ==
  /\ \A v \in Variants : RetakeButtonOf(pair.mounted, pair.comp[v])
  /\ pair.requestsIssued < MaxRequests
  /\ pair' = [pair EXCEPT
                !.pendingRequests = pair.pendingRequests + 1,
                !.requestsIssued = pair.requestsIssued + 1,
                !.comp = [v \in Variants |-> retakeImageOf(pair.comp[v])]]
  /\ UNCHANGED single

\* both components unmount
PairUnmount ==
  /\ pair.mounted
  /\ \E refAttached \in BOOLEAN :
       pair' = [pair EXCEPT
                  !.mounted = FALSE,
                  !.comp = [v \in Variants |->
                              stopCameraOf(VideoRefOf(v, pair.mounted, pair.comp[v])
                                             /\ refAttached,
                                           pair.comp[v])]]
  /\ UNCHANGED single

NextPair ==
  \/ PairCvLoaded
  \/ PairClickStartCamera
  \/ PairCameraGranted
  \/ PairCameraFailed
  \/ PairLoadedMetadata
  \/ PairClickCapture
  \/ PairClickProcess
  \/ PairProcessSettle
  \/ PairClickRetake
  \/ PairUnmount

SpecPair == Init /\ [][NextPair]_vars

\* the values the camera lifecycle shows: (isStreaming, a frame is present,
\* isProcessing)
LifecycleOf(c) == <<c.isStreaming, c.capturedImage # NoImage, c.isProcessing>>

(* ------------------------------- claims ------------------------------- *)

\* C1: while the component is mounted, a running camera stream and a captured
\* frame never exist at the same time.
C1_StreamXorFrame ==
  mounted => ~(liveTracks # {} /\ capturedImage # NoImage)

\* C2: at most one processImage invocation is pending at any time.
C2_OneInFlight == Len(procs) <= 1

\* C2 witness: an invocation is still pending on an earlier frame while, after
\* Retake and a new Capture, a different frame is shown and the Process button
\* is still disabled.
C2_Witness ==
  /\ mounted
  /\ Len(procs) = 1
  /\ capturedImage # NoImage
  /\ capturedImage # procs[1]
  /\ isProcessing

\* C3: once the component is unmounted and no camera request is pending, no
\* acquired stream has a running track.
C3_TeardownReleases ==
  (~mounted /\ pendingRequests = 0) => liveTracks = {}

\* C4: while mounted, at most one acquired stream is running, and a running
\* stream is the one bound to the video element.
C4_ExclusiveStream ==
  mounted =>
    /\ Cardinality(liveTracks) <= 1
    /\ \A s \in liveTracks : VideoRefCurrent /\ srcObject = s

\* C5: from a captureImage performed while streaming until startCamera is
\* called again, there is a captured frame, no stream is running, none is bound
\* to the video element and isStreaming is false.
C5_CaptureReleases ==
  (mounted /\ capturedSinceStart) =>
    /\ capturedImage # NoImage
    /\ liveTracks = {}
    /\ srcObject = NoStream
    /\ ~isStreaming

\* C6: captureImage invoked while not streaming changes neither the captured
\* frame, nor isStreaming, nor the result, nor the error.
C6_CaptureNoOpWhenIdle ==
  [][(lastOp' = "captureImage" /\ ~isStreaming) =>
       UNCHANGED <<capturedImage, isStreaming, objectCount, processedResult,
                   error>>]_vars

\* C7: when a camera request of the mounted component is granted, the component
\* is streaming with the new stream bound to the video element and no error.
C7_GrantedStreams ==
  [][(mounted /\ lastOp' = "startCamera.granted" /\ streams' = streams + 1) =>
       (isStreaming' /\ srcObject' = streams' /\ error' = NoError)]_vars

\* C8: when a camera request of the mounted component fails, the component is
\* not streaming, the error is a non-empty message, and the captured frame and
\* the result are unchanged.
C8_FailedLeavesIdle ==
  [][(mounted /\ lastOp' = "startCamera.failed"
        /\ pendingRequests' = pendingRequests - 1) =>
       /\ ~isStreaming'
       /\ error' # NoError /\ error' # ""
       /\ UNCHANGED <<capturedImage, objectCount, processedResult>>]_vars

\* C9: processImage invoked without the vision library or without a captured
\* frame sets the guard's error, starts no invocation (isProcessing and the
\* pending invocations are unchanged), makes no collaborator call (no structure
\* is allocated) and leaves the result, the frame and isStreaming unchanged.
C9_FailFast ==
  [][(lastOp' \in {"processImage.rejected", "processImage.started"}
        /\ (~cvLoaded \/ capturedImage = NoImage)) =>
       /\ lastOp' = "processImage.rejected"
       /\ error' = GuardErrorMsg
       /\ UNCHANGED <<isProcessing, procs, liveMats, objectCount,
                      processedResult, capturedImage, isStreaming>>]_vars

\* C9 witness: the Process button was pressed on a captured frame before the
\* vision library had loaded; the guard's error is shown and nothing is pending.
C9_Witness ==
  /\ lastOp = "processImage.rejected"
  /\ ~cvLoaded
  /\ capturedImage # NoImage
  /\ error = GuardErrorMsg
  /\ ~isProcessing
  /\ procs = <<>>

\* C10: when the only pending processImage of the mounted component settles
\* with no call throwing, the result is present and equals the count computed,
\* isProcessing is false and the captured frame is the one it processed.
C10_ResultIsCount ==
  [][(mounted /\ lastOp' = "processImage.succeeded"
        /\ Len(procs) = 1 /\ procs' = <<>>) =>
       /\ ResultPresent'
       /\ ResultValue' = lastVal'
       /\ ~isProcessing'
       /\ capturedImage' = procs[1]]_vars

\* C11: a Retake pressed in Captured with a result shown clears the frame and
\* the result and issues a camera request; when that request is granted the
\* mounted component is streaming with no frame and no result.
C11_RetakeRestarts ==
  [][/\ (lastOp' = "retake" /\ requestsIssued' = requestsIssued + 1
           /\ Captured /\ ResultPresent) =>
          /\ capturedImage' = NoImage
          /\ ~ResultPresent'
          /\ pendingRequests' = pendingRequests + 1
     /\ (mounted /\ lastOp' = "startCamera.granted"
           /\ pendingRetakes' = pendingRetakes - 1) =>
          /\ isStreaming'
          /\ capturedImage' = NoImage
          /\ ~ResultPresent']_vars

\* C12: while mounted, a result is present only together with the captured
\* frame it was computed from.
C12_ResultOfShownFrame ==
  (mounted /\ ResultPresent) =>
    (capturedImage # NoImage /\ resultFrame = capturedImage)

\* C13: whenever startCamera, captureImage or processImage of the mounted
\* component completes successfully, no error is set afterwards.
C13_SuccessClearsError ==
  [][(mounted /\ (\/ lastOp' = "startCamera.granted" /\ streams' = streams + 1
                  \/ lastOp' = "captureImage" /\ isStreaming /\ ~isStreaming'
                  \/ lastOp' = "processImage.succeeded"
                       /\ Len(procs') < Len(procs))) =>
       error' = NoError]_vars

\* C14: whenever the mounted component is processing, it later stops
\* processing with a processImage invocation settled, its result or its error
\* set (or the component is unmounted).
C14_ProcessingEnds ==
  (mounted /\ isProcessing) ~>
    (~mounted \/ (~isProcessing /\ lastOp \in {"processImage.succeeded",
                                               "processImage.failed"}))

\* C15: whenever no processImage invocation is pending, no vision-library
\* structure is allocated.
C15_MatsReleased == (procs = <<>>) => (liveMats = 0)

\* C16: a captured frame is never replaced by a different frame in one step:
\* capturedImage only goes from absent to a frame and from a frame to absent.
C16_FrameImmutable ==
  [][(capturedImage # NoImage /\ capturedImage' # NoImage) =>
       capturedImage' = capturedImage]_vars

\* C17: while mounted, at least one of the buttons Start Camera, Capture Image,
\* Process Image (enabled) and Retake / New Capture is rendered, and when a
\* camera request of the mounted component fails, the Start Camera button is
\* rendered afterwards.
C17_Interactive ==
  /\ [](mounted =>
          (StartCameraButton \/ CaptureButton \/ ProcessButton \/ RetakeButton))
  /\ [][(mounted /\ lastOp' = "startCamera.failed"
            /\ pendingRequests' = pendingRequests - 1) =>
           StartCameraButton']_vars

\* C18: when a pending processImage invocation of the mounted component
\* settles, either it has set the result to the count it computed and left the
\* error as it was, or it has set the processing error and left the result as
\* it was.
C18_ResultOrError ==
  [][(mounted /\ lastOp' \in {"processImage.succeeded", "processImage.failed"}
        /\ Len(procs') < Len(procs)) =>
       \/ /\ lastOp' = "processImage.succeeded"
          /\ ResultValue' = lastVal'
          /\ error' = error
       \/ /\ lastOp' = "processImage.failed"
          /\ error' = ProcessErrorMsg
          /\ UNCHANGED <<objectCount, processedResult>>]_vars

\* C19: while the component is mounted (its state exists), isStreaming is true
\* exactly when the video element is rendered and has a stream bound to it.
C19_FlagAgreesWithBinding ==
  mounted => (isStreaming <=> (VideoRefCurrent /\ srcObject # NoStream))

\* C19 witness: startCamera has bound a stream and set the flag, and
\* captureImage has then unbound it and cleared the flag through stopCamera.
C19_Witness ==
  /\ mounted
  /\ lastOp = "captureImage"
  /\ streams > 0
  /\ capturedImage # NoImage
  /\ ~isStreaming
  /\ srcObject = NoStream

\* C20: driven by the same user actions and the same completions, the two
\* mounted variants always show the same values of (isStreaming, a frame is
\* present, isProcessing).
C20_SameLifecycle ==
  pair.mounted => LifecycleOf(pair.comp["A"]) = LifecycleOf(pair.comp["B"])

====
